---- MODULE Spec2Model ----
(***************************************************************************)
(* State-machine model of cache_sim.py: a set-associative cache simulator  *)
(* (CacheLine, CacheStats, CacheSimulator and the driver main()).          *)
(*                                                                         *)
(* Three specifications share the variables:                              *)
(*   Spec        a caller constructs a CacheSimulator and then calls       *)
(*               access_cache / init_cache in any order;                   *)
(*   SpecMain    main() run on the built-in trace with command-line        *)
(*               geometry arguments;                                       *)
(*   SpecReplay  two CacheSimulator objects, one with a history followed   *)
(*               by init_cache and one freshly constructed, fed the same   *)
(*               addresses.                                                *)
(***************************************************************************)
EXTENDS Integers, Sequences, FiniteSets

VARIABLES
    args,        \* the constructor arguments (cache_size, block_size, associativity, policy)
    exc,         \* the exception the constructor raised: "none", "ValueError", "ZeroDivisionError"
    simulator,   \* the CacheSimulator object (all of its fields, stats included)
    fresh,       \* a second CacheSimulator object (SpecReplay only)
    pc,          \* the caller's position: the last operation it completed
    log,         \* what access_cache reported for each access since the last (re)initialisation
    fresh_log    \* the same for the second object

vars == <<args, exc, simulator, fresh, pc, log, fresh_log>>

----------------------------------------------------------------------------
(* Bounds and inputs *)

\* accesses made on one object (guards the global access counter)
MaxAccesses == 5

DEFAULT_CACHE_SIZE == 1024
DEFAULT_BLOCK_SIZE == 16
DEFAULT_ASSOCIATIVITY == 2

\* constructor arguments tried by Spec and SpecReplay
CacheSizes == {-64, 0, 64, 96}
BlockSizes == {-16, 0, 16, 32}
Associativities == {-2, 0, 2, 3}
Policies == {"FIFO", "LRU", "lru", "RANDOM"}

\* addresses tried by Spec and SpecReplay
Addresses == {0, 16, 64, 128, 192}

\* command-line arguments tried by SpecMain (argparse restricts --policy)
MainCacheSizes == {-64, 0, 16, 96, 1000, DEFAULT_CACHE_SIZE}
MainBlockSizes == {-16, 0, 8, DEFAULT_BLOCK_SIZE, 32}
MainAssociativities == {-2, 0, 1, DEFAULT_ASSOCIATIVITY, 3, 4}
MainPolicies == {"FIFO", "LRU"}

\* the built-in trace of main(): 0xA3C4 0xA3D0 0xA3C4 0xA3D0 0xB3C4 0xC3C4 0xA3C4 0xD3C4
DefaultTrace == <<41924, 41936, 41924, 41936, 46020, 50116, 41924, 54212>>

----------------------------------------------------------------------------
(* Integer helpers: Python's //, >>, & and int.bit_length *)

\* a // b for b # 0 (floor division, also for negative operands)
FloorDiv(a, b) ==
    IF b > 0 THEN a \div b ELSE (0 - a) \div (0 - b)

RECURSIVE Pow2(_)
Pow2(n) == IF n <= 0 THEN 1 ELSE 2 * Pow2(n - 1)

\* x >> n for x >= 0, n >= 0
ShiftRight(x, n) == x \div Pow2(n)

\* x & y for x >= 0, y >= 0
RECURSIVE BitAnd(_, _)
BitAnd(x, y) ==
    IF x = 0 \/ y = 0 THEN 0
    ELSE (x % 2) * (y % 2) + 2 * BitAnd(x \div 2, y \div 2)

\* n.bit_length() for n >= 0
RECURSIVE BitLength(_)
BitLength(n) == IF n = 0 THEN 0 ELSE 1 + BitLength(n \div 2)

\* str.upper() on the policy strings
Upper(s) ==
    CASE s = "fifo" -> "FIFO"
      [] s = "lru" -> "LRU"
      [] s = "random" -> "RANDOM"
      [] OTHER -> s

----------------------------------------------------------------------------
(* Python floats (IEEE 754 binary64, round to nearest, ties to even), for the  *)
(* values line 43 computes.  A float is [m2, m1, m0, e]: the 53-bit mantissa   *)
(* m2 * 2^36 + m1 * 2^18 + m0 (m2 has 17 bits, m1 and m0 have 18) times        *)
(* 2^(e - 52); 0.0 is FloatZero.  Only values >= 0 occur.                      *)

FloatZero == [m2 |-> 0, m1 |-> 0, m0 |-> 0, e |-> 0]

\* <<floor(r * 2^k / d), (r * 2^k) mod d>> for 0 <= r < d < 2^13 and k = 16 or 18
DivBits(r, d, k) ==
    LET scaled == r * (IF k = 16 THEN 65536 ELSE 262144)
    IN  <<scaled \div d, scaled % d>>

\* the exponent e with d * 2^e <= n < d * 2^(e+1), for n > 0, d > 0
RECURSIVE NormExp(_, _)
NormExp(n, d) ==
    IF n < d THEN NormExp(2 * n, d) - 1
    ELSE IF n >= 2 * d THEN NormExp(n, 2 * d) + 1
    ELSE 0

\* the next float above f (f > 0): the mantissa plus one unit in the last place
FloatSucc(f) ==
    IF f.m0 + 1 < 262144 THEN [f EXCEPT !.m0 = @ + 1]
    ELSE IF f.m1 + 1 < 262144 THEN [f EXCEPT !.m0 = 0, !.m1 = @ + 1]
    ELSE IF f.m2 + 1 < 131072 THEN [f EXCEPT !.m0 = 0, !.m1 = 0, !.m2 = @ + 1]
    ELSE [m2 |-> 65536, m1 |-> 0, m0 |-> 0, e |-> f.e + 1]

\* n / d for integers n >= 0, d > 0 (int.__truediv__: the correctly rounded quotient)
FloatDiv(n, d) ==
    IF n = 0 THEN FloatZero
    ELSE LET e == NormExp(n, d)
             nn == IF e < 0 THEN n * Pow2(0 - e) ELSE n
             dd == IF e > 0 THEN d * Pow2(e) ELSE d
             q2 == DivBits(nn - dd, dd, 16)
             q1 == DivBits(q2[2], dd, 18)
             q0 == DivBits(q1[2], dd, 18)
             down == [m2 |-> 65536 + q2[1], m1 |-> q1[1], m0 |-> q0[1], e |-> e]
             twice == 2 * q0[2]
         IN  IF twice > dd \/ (twice = dd /\ q0[1] % 2 = 1)
             THEN FloatSucc(down)
             ELSE down

\* f * 100 (float.__mul__ with the int 100 converted to 100.0): the mantissa
\* times 25, rounded back to 53 bits, and the exponent raised by 2
FloatMul100(f) ==
    IF f = FloatZero THEN FloatZero
    ELSE LET c0 == f.m0 * 25
             c1 == f.m1 * 25 + c0 \div 262144
             c2 == f.m2 * 25 + c1 \div 262144
             l0 == c0 % 262144
             l1 == c1 % 262144
             sh == IF c2 < 2097152 THEN 4 ELSE 5
             cut == IF sh = 4 THEN 16 ELSE 32
             up == 262144 \div cut
             dropped == l0 % cut
             down == [m2 |-> c2 \div cut,
                      m1 |-> (c2 % cut) * up + l1 \div cut,
                      m0 |-> (l1 % cut) * up + l0 \div cut,
                      e |-> f.e + 2 + sh]
         IN  IF 2 * dropped > cut \/ (2 * dropped = cut /\ down.m0 % 2 = 1)
             THEN FloatSucc(down)
             ELSE down

\* a <= b for floats >= 0
FloatLe(a, b) ==
    IF a = FloatZero THEN TRUE
    ELSE IF b = FloatZero THEN FALSE
    ELSE \/ a.e < b.e
         \/ a.e = b.e /\ a.m2 < b.m2
         \/ a.e = b.e /\ a.m2 = b.m2 /\ a.m1 < b.m1
         \/ a.e = b.e /\ a.m2 = b.m2 /\ a.m1 = b.m1 /\ a.m0 <= b.m0

----------------------------------------------------------------------------
(* CacheLine and CacheStats *)

CacheLine == [valid |-> FALSE, tag |-> 0, last_used |-> 0]

CacheStats ==
    [total_accesses |-> 0, hits |-> 0, misses |-> 0, evictions |-> 0,
     hit_rate_history |-> <<>>]

\* variant: the quotient is not scaled to a percentage
HitRate_Fraction(hits, total_accesses) ==
    IF total_accesses > 0 THEN FloatDiv(hits, total_accesses) ELSE FloatZero

\* variant: 100 * hits / total_accesses (one rounding instead of two)
HitRate_SingleRounding(hits, total_accesses) ==
    IF total_accesses > 0 THEN FloatDiv(100 * hits, total_accesses) ELSE FloatZero

\* line 43: (hits / total_accesses) * 100 if total_accesses > 0 else 0
HitRate(hits, total_accesses) ==
    IF total_accesses > 0
    THEN FloatMul100(FloatDiv(hits, total_accesses))
    ELSE FloatZero

record_access(stats, is_hit) ==
    LET total == stats.total_accesses + 1
        hits == IF is_hit THEN stats.hits + 1 ELSE stats.hits
        misses == IF is_hit THEN stats.misses ELSE stats.misses + 1
    IN  [stats EXCEPT !.total_accesses = total,
                      !.hits = hits,
                      !.misses = misses,
                      !.hit_rate_history = Append(@, HitRate(hits, total))]

record_eviction(stats) ==
    [stats EXCEPT !.evictions = @ + 1]

----------------------------------------------------------------------------
(* CacheSimulator.__init__ *)

NumBlocks(cache_size, block_size) == FloorDiv(cache_size, block_size)

NumSets(num_blocks, associativity) == FloorDiv(num_blocks, associativity)

\* the exception raised by the integer divisions of lines 82-83, if any
DivisionError(cache_size, block_size, associativity) ==
    block_size = 0 \/ associativity = 0

\* variant: the check of line 91 (blocks divisible by associativity) left out
ValidationError_NoSetCheck(cache_size, block_size, associativity, replacement_policy) ==
    LET num_blocks == NumBlocks(cache_size, block_size)
    IN  \/ cache_size <= 0 \/ block_size <= 0 \/ associativity <= 0
        \/ num_blocks * block_size # cache_size
        \/ Upper(replacement_policy) \notin {"FIFO", "LRU"}

\* the validation block, lines 87-94: TRUE when one of the checks raises ValueError
ValidationError(cache_size, block_size, associativity, replacement_policy) ==
    LET num_blocks == NumBlocks(cache_size, block_size)
        num_sets == NumSets(num_blocks, associativity)
    IN  \/ cache_size <= 0 \/ block_size <= 0 \/ associativity <= 0
        \/ num_blocks * block_size # cache_size
        \/ num_sets * associativity # num_blocks
        \/ Upper(replacement_policy) \notin {"FIFO", "LRU"}

\* how the constructor ends
ConstructorOutcome(cache_size, block_size, associativity, replacement_policy) ==
    IF DivisionError(cache_size, block_size, associativity) THEN "ZeroDivisionError"
    ELSE IF ValidationError(cache_size, block_size, associativity, replacement_policy)
         THEN "ValueError"
         ELSE "none"

\* the object the constructor builds when it does not raise
NewSimulator(cache_size, block_size, associativity, replacement_policy) ==
    LET num_blocks == NumBlocks(cache_size, block_size)
        num_sets == NumSets(num_blocks, associativity)
    IN  [cache_size |-> cache_size,
         block_size |-> block_size,
         associativity |-> associativity,
         replacement_policy |-> Upper(replacement_policy),
         num_blocks |-> num_blocks,
         num_sets |-> num_sets,
         access_counter |-> 0,
         cache_array |-> [s \in 0..(num_sets - 1) |->
                            [w \in 0..(associativity - 1) |-> CacheLine]],
         fifo_idx |-> [s \in 0..(num_sets - 1) |-> 0],
         stats |-> CacheStats]

\* no object (before construction, or when the constructor raised)
NoSimulator ==
    [cache_size |-> 0, block_size |-> 0, associativity |-> 0,
     replacement_policy |-> "", num_blocks |-> 0, num_sets |-> 0,
     access_counter |-> 0, cache_array |-> <<>>, fifo_idx |-> <<>>,
     stats |-> CacheStats]

----------------------------------------------------------------------------
(* CacheSimulator.init_cache *)

\* variant: the FIFO cursors are not rewound
init_cache_KeepsCursor(sim) ==
    [sim EXCEPT
        !.cache_array = [s \in 0..(sim.num_sets - 1) |->
                           [w \in 0..(sim.associativity - 1) |->
                              [valid |-> FALSE, tag |-> 0, last_used |-> 0]]]]

\* variant: the access counter is rewound as well
init_cache_RewindsCounter(sim) ==
    [sim EXCEPT
        !.access_counter = 0,
        !.cache_array = [s \in 0..(sim.num_sets - 1) |->
                           [w \in 0..(sim.associativity - 1) |->
                              [valid |-> FALSE, tag |-> 0, last_used |-> 0]]],
        !.fifo_idx = [s \in 0..(sim.num_sets - 1) |-> 0]]

init_cache(sim) ==
    [sim EXCEPT
        !.cache_array = [s \in 0..(sim.num_sets - 1) |->
                           [w \in 0..(sim.associativity - 1) |->
                              [valid |-> FALSE, tag |-> 0, last_used |-> 0]]],
        !.fifo_idx = [s \in 0..(sim.num_sets - 1) |-> 0]]

----------------------------------------------------------------------------
(* CacheSimulator.access_cache *)

\* variant: the mask is left out
SetIndex_NoMask(address, num_sets) == ShiftRight(address, 4)

\* line 115: the block offset is taken to be 4 bits
SetIndex(address, num_sets) == BitAnd(ShiftRight(address, 4), num_sets - 1)

\* line 116
TagValue(address, num_sets) == ShiftRight(address, 4 + (BitLength(num_sets) - 1))

\* variant: the scan starts at way 1
RECURSIVE HitScan_SkipsFirstWay(_, _, _, _)
HitScan_SkipsFirstWay(current_set, tag_value, way, associativity) ==
    IF way >= associativity THEN -1
    ELSE IF way > 0 /\ current_set[way].valid /\ current_set[way].tag = tag_value
         THEN way
    ELSE HitScan_SkipsFirstWay(current_set, tag_value, way + 1, associativity)

\* lines 120-126: the first way, in way order, that is valid and holds the tag; -1 if none
RECURSIVE HitScan(_, _, _, _)
HitScan(current_set, tag_value, way, associativity) ==
    IF way >= associativity THEN -1
    ELSE IF current_set[way].valid /\ current_set[way].tag = tag_value THEN way
    ELSE HitScan(current_set, tag_value, way + 1, associativity)

\* variant: a hit leaves the line's stamp alone
HitLine_NoRefresh(line, access_counter) == line

\* line 122: a hit stamps the line with the access counter
HitLine(line, access_counter) ==
    [line EXCEPT !.last_used = access_counter]

\* variant: <= instead of < (keeps the last minimum it meets)
RECURSIVE MinLastUsed_LastMin(_, _, _, _)
MinLastUsed_LastMin(current_set, way, best, associativity) ==
    IF way >= associativity THEN best
    ELSE IF current_set[way].last_used <= current_set[best].last_used
         THEN MinLastUsed_LastMin(current_set, way + 1, way, associativity)
         ELSE MinLastUsed_LastMin(current_set, way + 1, best, associativity)

\* variant: the comparison reversed (keeps the largest stamp)
RECURSIVE MinLastUsed_Reversed(_, _, _, _)
MinLastUsed_Reversed(current_set, way, best, associativity) ==
    IF way >= associativity THEN best
    ELSE IF current_set[way].last_used > current_set[best].last_used
         THEN MinLastUsed_Reversed(current_set, way + 1, way, associativity)
         ELSE MinLastUsed_Reversed(current_set, way + 1, best, associativity)

\* line 133: min(range(associativity), key=last_used) keeps the first minimum it meets
RECURSIVE MinLastUsed(_, _, _, _)
MinLastUsed(current_set, way, best, associativity) ==
    IF way >= associativity THEN best
    ELSE IF current_set[way].last_used < current_set[best].last_used
         THEN MinLastUsed(current_set, way + 1, way, associativity)
         ELSE MinLastUsed(current_set, way + 1, best, associativity)

\* lines 129-133: the way to replace on a miss
ReplaceIdx(sim, set_index) ==
    IF sim.replacement_policy = "FIFO"
    THEN sim.fifo_idx[set_index]
    ELSE MinLastUsed(sim.cache_array[set_index], 1, 0, sim.associativity)

\* variant: the cursor moves only when the victim was valid
NextFifoIdx_OnlyOnEviction(sim, set_index) ==
    IF sim.replacement_policy = "FIFO"
       /\ sim.cache_array[set_index][sim.fifo_idx[set_index]].valid
    THEN (sim.fifo_idx[set_index] + 1) % sim.associativity
    ELSE sim.fifo_idx[set_index]

\* line 131: the FIFO cursor after a miss
NextFifoIdx(sim, set_index) ==
    IF sim.replacement_policy = "FIFO"
    THEN (sim.fifo_idx[set_index] + 1) % sim.associativity
    ELSE sim.fifo_idx[set_index]

\* variant: every miss is counted as an eviction
EvictStats_EveryMiss(stats, victim_valid) == record_eviction(stats)

\* lines 136-137
EvictStats(stats, victim_valid) ==
    IF victim_valid THEN record_eviction(stats) ELSE stats

\* lines 141-143
ReplaceLine(line, tag_value, access_counter) ==
    [line EXCEPT !.valid = TRUE, !.tag = tag_value, !.last_used = access_counter]

\* variant: the FIFO cursor of the set moves on a hit as well
HitUpdate_AdvancesCursor(sim, set_index, hit_way) ==
    [sim EXCEPT
        !.cache_array[set_index][hit_way] = HitLine(@, sim.access_counter),
        !.fifo_idx[set_index] = (@ + 1) % sim.associativity,
        !.stats = record_access(@, TRUE)]

\* lines 122-123: what a hit changes (the counter is already incremented)
HitUpdate(sim, set_index, hit_way) ==
    [sim EXCEPT
        !.cache_array[set_index][hit_way] = HitLine(@, sim.access_counter),
        !.stats = record_access(@, TRUE)]

\* lines 129-144: what a miss changes (the counter is already incremented)
MissUpdate(sim, set_index, tag_value, replace_idx) ==
    LET victim == sim.cache_array[set_index][replace_idx]
    IN  [sim EXCEPT
            !.fifo_idx[set_index] = NextFifoIdx(sim, set_index),
            !.cache_array[set_index][replace_idx] =
                ReplaceLine(@, tag_value, sim.access_counter),
            !.stats = record_access(EvictStats(@, victim.valid), FALSE)]

\* the whole call: the object afterwards, what the call reported, and the exception
\* it raised ("IndexError" when line 119 indexes cache_array past its end)
access_cache(sim, address) ==
    LET counted == [sim EXCEPT !.access_counter = @ + 1]
        set_index == SetIndex(address, sim.num_sets)
        tag_value == TagValue(address, sim.num_sets)
    IN  IF set_index \notin 0..(sim.num_sets - 1)
        THEN [sim |-> counted, raised |-> "IndexError",
              outcome |-> [address |-> address, hit |-> FALSE,
                           set_index |-> set_index, way |-> 0,
                           tag |-> tag_value, evicted |-> FALSE, evicted_tag |-> 0]]
        ELSE
        LET current_set == sim.cache_array[set_index]
            hit_way == HitScan(current_set, tag_value, 0, sim.associativity)
        IN  IF hit_way >= 0
            THEN [sim |-> HitUpdate(counted, set_index, hit_way), raised |-> "none",
                  outcome |-> [address |-> address, hit |-> TRUE,
                               set_index |-> set_index, way |-> hit_way,
                               tag |-> tag_value, evicted |-> FALSE, evicted_tag |-> 0]]
            ELSE LET replace_idx == ReplaceIdx(sim, set_index)
                     victim == current_set[replace_idx]
                 IN  [sim |-> MissUpdate(counted, set_index, tag_value, replace_idx),
                      raised |-> "none",
                      outcome |-> [address |-> address, hit |-> FALSE,
                                   set_index |-> set_index, way |-> replace_idx,
                                   tag |-> tag_value, evicted |-> victim.valid,
                                   evicted_tag |-> IF victim.valid THEN victim.tag ELSE 0]]

----------------------------------------------------------------------------
(* The caller: construction, then access_cache and init_cache in any order *)

Init ==
    /\ args = [cache_size |-> 0, block_size |-> 0, associativity |-> 0, policy |-> ""]
    /\ exc = "none"
    /\ simulator = NoSimulator
    /\ fresh = NoSimulator
    /\ pc = "start"
    /\ log = <<>>
    /\ fresh_log = <<>>

\* the program position after the constructor returned or raised
AfterConstruction(outcome) ==
    CASE outcome = "none" -> "constructed"
      [] outcome = "ValueError" -> "config_error"
      [] OTHER -> "crash"

ConstructWith(cache_size, block_size, associativity, policy) ==
    LET outcome == ConstructorOutcome(cache_size, block_size, associativity, policy)
    IN  /\ pc = "start"
        /\ args' = [cache_size |-> cache_size, block_size |-> block_size,
                    associativity |-> associativity, policy |-> policy]
        /\ exc' = outcome
        /\ simulator' = IF outcome = "none"
                        THEN NewSimulator(cache_size, block_size, associativity, policy)
                        ELSE NoSimulator
        /\ pc' = AfterConstruction(outcome)
        /\ log' = <<>>

Live == pc \in {"constructed", "reset", "accessed", "replaying"}

Construct ==
    /\ \E cs \in CacheSizes, bs \in BlockSizes, a \in Associativities, p \in Policies :
          ConstructWith(cs, bs, a, p)
    /\ UNCHANGED <<fresh, fresh_log>>

InitCache ==
    /\ Live
    /\ simulator' = init_cache(simulator)
    /\ pc' = "reset"
    /\ log' = <<>>
    /\ UNCHANGED <<args, exc, fresh, fresh_log>>

\* the program position after access_cache returned or raised
AfterAccess(raised, position) ==
    IF raised = "none" THEN position ELSE "crash"

AccessWith(address) ==
    LET r == access_cache(simulator, address)
    IN  /\ simulator' = r.sim
        /\ exc' = r.raised
        /\ log' = IF r.raised = "none" THEN Append(log, r.outcome) ELSE log
        /\ pc' = AfterAccess(r.raised, "accessed")

Access ==
    /\ Live
    /\ simulator.access_counter < MaxAccesses
    /\ \E address \in Addresses : AccessWith(address)
    /\ UNCHANGED <<args, fresh, fresh_log>>

Next == Construct \/ InitCache \/ Access

Spec == Init /\ [][Next]_vars

----------------------------------------------------------------------------
(* main(): parse the arguments, construct, init_cache, replay the built-in *)
(* trace, print the summary                                                *)

MainConstruct ==
    /\ \E cs \in MainCacheSizes, bs \in MainBlockSizes,
          a \in MainAssociativities, p \in MainPolicies :
          ConstructWith(cs, bs, a, p)
    /\ UNCHANGED <<fresh, fresh_log>>

MainInitCache ==
    /\ pc = "constructed"
    /\ simulator' = init_cache(simulator)
    /\ pc' = "reset"
    /\ log' = <<>>
    /\ UNCHANGED <<args, exc, fresh, fresh_log>>

MainAccess ==
    /\ pc \in {"reset", "accessed"}
    /\ Len(log) < Len(DefaultTrace)
    /\ AccessWith(DefaultTrace[Len(log) + 1])
    /\ UNCHANGED <<args, fresh, fresh_log>>

MainSummary ==
    /\ pc \in {"reset", "accessed"}
    /\ Len(log) = Len(DefaultTrace)
    /\ pc' = "done"
    /\ UNCHANGED <<args, exc, simulator, fresh, log, fresh_log>>

MainNext == MainConstruct \/ MainInitCache \/ MainAccess \/ MainSummary

SpecMain == Init /\ [][MainNext]_vars

----------------------------------------------------------------------------
(* Two objects of one configuration: `simulator` is used, then reinitialised *)
(* with init_cache; `fresh` is constructed anew at that moment; from then on *)
(* both are given the same addresses                                         *)

ReplayConstruct ==
    /\ \E cs \in CacheSizes, bs \in BlockSizes, a \in Associativities, p \in MainPolicies :
          /\ ConstructWith(cs, bs, a, p)
          /\ fresh' = IF ConstructorOutcome(cs, bs, a, p) = "none"
                       THEN NewSimulator(cs, bs, a, p)
                       ELSE NoSimulator
    /\ fresh_log' = <<>>

ReplayHistory ==
    /\ pc \in {"constructed", "accessed"}
    /\ simulator.access_counter < MaxAccesses
    /\ \E address \in Addresses : AccessWith(address)
    /\ UNCHANGED <<args, fresh, fresh_log>>

ReplayReset ==
    /\ Live
    /\ simulator' = init_cache(simulator)
    /\ fresh' = NewSimulator(args.cache_size, args.block_size,
                              args.associativity, args.policy)
    /\ pc' = "reset"
    /\ log' = <<>>
    /\ fresh_log' = <<>>
    /\ UNCHANGED <<args, exc>>

ReplayAccess ==
    /\ pc \in {"reset", "replaying"}
    /\ simulator.access_counter < MaxAccesses
    /\ \E address \in Addresses :
          LET r == access_cache(simulator, address)
              f == access_cache(fresh, address)
          IN  /\ simulator' = r.sim
              /\ fresh' = f.sim
              /\ exc' = r.raised
              /\ log' = IF r.raised = "none" THEN Append(log, r.outcome) ELSE log
              /\ fresh_log' = IF f.raised = "none"
                               THEN Append(fresh_log, f.outcome) ELSE fresh_log
              /\ pc' = AfterAccess(r.raised, "replaying")
    /\ UNCHANGED args

ReplayNext == ReplayConstruct \/ ReplayHistory \/ ReplayReset \/ ReplayAccess

SpecReplay == Init /\ [][ReplayNext]_vars

----------------------------------------------------------------------------
(* Properties *)

Sets == 0..(simulator.num_sets - 1)
Ways == 0..(simulator.associativity - 1)

\* the hit/miss results of a log, in order
HitsOf(l) == [i \in 1..Len(l) |-> l[i].hit]

\* the accesses of the log that went to set s, in order
SetLog(s) == SelectSeq(log, LAMBDA o : o.set_index = s)

\* the misses of the log on set s, in order
SetMisses(s) == SelectSeq(log, LAMBDA o : o.set_index = s /\ ~o.hit)

\* tag t is held by a valid line of set s
Resident(sim, s, t) ==
    \E w \in 0..(sim.associativity - 1) :
        sim.cache_array[s][w].valid /\ sim.cache_array[s][w].tag = t

PositiveArgs ==
    args.cache_size > 0 /\ args.block_size > 0 /\ args.associativity > 0

IsPowerOfTwo(n) == \E k \in 0..12 : n = Pow2(k)

\* floor(log2(n)) for n >= 1
Log2(n) == BitLength(n) - 1

DefaultLRURun ==
    /\ args = [cache_size |-> DEFAULT_CACHE_SIZE, block_size |-> DEFAULT_BLOCK_SIZE,
               associativity |-> DEFAULT_ASSOCIATIVITY, policy |-> "LRU"]
    /\ pc = "done"

\* C1 (as stated): with cache_size=1024, block_size=16, associativity=2, LRU, the
\* built-in trace gives miss, miss, hit, hit, miss, miss, hit, miss and 2 evictions.
C1_AsStated ==
    DefaultLRURun =>
        /\ HitsOf(log) = <<FALSE, FALSE, TRUE, TRUE, FALSE, FALSE, TRUE, FALSE>>
        /\ simulator.stats.evictions = 2

\* C1 (amended): with cache_size=1024, block_size=16, associativity=2, LRU, the
\* built-in trace gives miss, miss, hit, hit, miss, miss, miss, miss (the seventh
\* access misses: 0xA3C4 was the least recently used line when 0xC3C4 came in) and
\* the eviction counter is 3 after the last access.
C1_DefaultTrace ==
    DefaultLRURun =>
        /\ HitsOf(log) = <<FALSE, FALSE, TRUE, TRUE, FALSE, FALSE, FALSE, FALSE>>
        /\ simulator.stats.evictions = 3
        /\ simulator.stats.hits = 2
        /\ simulator.stats.misses = 6

C1_Witness ==
    DefaultLRURun /\ Len(log) = Len(DefaultTrace)

\* C2: under LRU with associativity 2, when the accesses to one set since its
\* (re)initialisation start with tags A, B, A, C (all distinct), the third access
\* is a hit, the fourth evicts B, and A and C are then resident: a following
\* access to A hits, a following access to B misses.
C2_LRURefresh ==
    (Live /\ simulator.replacement_policy = "LRU" /\ simulator.associativity = 2) =>
        \A s \in Sets :
            LET L == SetLog(s)
            IN  (/\ Len(L) >= 4
                 /\ L[1].tag = L[3].tag
                 /\ L[1].tag # L[2].tag
                 /\ L[4].tag # L[1].tag
                 /\ L[4].tag # L[2].tag)
                =>
                (/\ ~L[1].hit /\ ~L[2].hit /\ L[3].hit /\ ~L[4].hit
                 /\ L[4].evicted
                 /\ L[4].evicted_tag = L[2].tag
                 /\ L[4].way = L[2].way
                 /\ (Len(L) = 4 =>
                        /\ Resident(simulator, s, L[1].tag)
                        /\ Resident(simulator, s, L[4].tag)
                        /\ ~Resident(simulator, s, L[2].tag))
                 /\ (Len(L) >= 5 /\ L[5].tag = L[1].tag => L[5].hit)
                 /\ (Len(L) >= 5 /\ L[5].tag = L[2].tag => ~L[5].hit))

C2_Witness ==
    /\ Live /\ simulator.replacement_policy = "LRU" /\ simulator.associativity = 2
    /\ \E s \in Sets :
          LET L == SetLog(s)
          IN  /\ Len(L) = 5
              /\ L[1].tag = L[3].tag /\ L[1].tag # L[2].tag
              /\ L[4].tag # L[1].tag /\ L[4].tag # L[2].tag
              /\ L[5].tag = L[1].tag /\ L[5].hit

\* C3: under FIFO, for every set, the j-th miss on that set since construction or
\* init_cache takes way (j-1) mod associativity, whatever hits and accesses to
\* other sets come in between, and the set's cursor is the number of those misses
\* mod associativity.
C3_FifoCycle ==
    (Live /\ simulator.replacement_policy = "FIFO") =>
        \A s \in Sets :
            LET M == SetMisses(s)
            IN  /\ \A j \in 1..Len(M) : M[j].way = (j - 1) % simulator.associativity
                /\ simulator.fifo_idx[s] = Len(M) % simulator.associativity

C3_Witness ==
    /\ Live /\ simulator.replacement_policy = "FIFO"
    /\ \E i, j, k \in 1..Len(log) :
          /\ i < k /\ j < k
          /\ log[i].hit /\ log[i].set_index = log[k].set_index
          /\ log[j].set_index # log[k].set_index
          /\ ~log[k].hit
          /\ Len(SetMisses(log[k].set_index)) > simulator.associativity
          /\ log[k].way = 0

\* C4: after init_cache on a used object, every access gets the same result (hit
\* or miss, set, way, eviction and evicted tag) as the same access sequence gets on
\* a freshly constructed object of the same configuration.
C4_ReplayDeterminism ==
    pc \in {"reset", "replaying"} =>
        /\ Len(log) = Len(fresh_log)
        /\ \A i \in 1..Len(log) : log[i] = fresh_log[i]

C4_Witness ==
    /\ pc = "replaying"
    /\ simulator.access_counter > fresh.access_counter
    /\ simulator.stats.misses > fresh.stats.misses
    /\ \E i, j \in 1..Len(log) : log[i].hit /\ log[j].evicted

\* C5 (as stated): construction with positive parameters whose set count
\* cache_size / block_size / associativity is not a power of two raises the
\* configuration error, and no object with such a set count serves an access.
C5_PowerOfTwoSets ==
    /\ (pc # "start" /\ PositiveArgs
        /\ ~(\E k \in 0..12 :
                args.cache_size = args.block_size * args.associativity * Pow2(k)))
       => exc = "ValueError"
    /\ Len(log) > 0 => IsPowerOfTwo(simulator.num_sets)

\* C6: with positive parameters, construction raises the configuration error when
\* cache_size is not a multiple of block_size or the block count is not a multiple of
\* associativity; an accepted configuration has num_blocks * block_size = cache_size,
\* num_sets * associativity = num_blocks and num_sets >= 1.
C6_ExactGeometry ==
    (pc # "start" /\ PositiveArgs) =>
        /\ (\/ args.cache_size % args.block_size # 0
            \/ (args.cache_size \div args.block_size) % args.associativity # 0)
           => (exc = "ValueError" /\ pc = "config_error")
        /\ exc = "none" =>
              /\ simulator.num_blocks * args.block_size = args.cache_size
              /\ simulator.num_sets * args.associativity = simulator.num_blocks
              /\ simulator.num_sets >= 1

C6_Witness ==
    /\ args.cache_size = 1024 /\ args.block_size = 16 /\ args.associativity = 3
    /\ exc = "ValueError"

\* C7 (as stated): construction with a non-positive cache_size, block_size or
\* associativity, or with a policy other than FIFO/LRU, ends in the configuration
\* error (ValueError) and in no other failure, and yields no object.
C7_ConfigErrorOnly ==
    (pc # "start"
     /\ (\/ args.cache_size <= 0 \/ args.block_size <= 0 \/ args.associativity <= 0
         \/ Upper(args.policy) \notin {"FIFO", "LRU"}))
    => (exc = "ValueError" /\ pc = "config_error" /\ simulator = NoSimulator)

\* C8 (as stated): every access uses set_index = (address >> log2(block_size)) &
\* (num_sets - 1) and tag = address >> (log2(block_size) + log2(num_sets)).
C8_AddressDecomposition ==
    \A i \in 1..Len(log) :
        /\ log[i].set_index =
              BitAnd(ShiftRight(log[i].address, Log2(simulator.block_size)),
                     simulator.num_sets - 1)
        /\ log[i].tag =
              ShiftRight(log[i].address,
                         Log2(simulator.block_size) + Log2(simulator.num_sets))

\* C9: init_cache, in any state, leaves every line invalid with tag 0 and last_used 0
\* and every FIFO cursor 0, and leaves the access counter, the statistics (hit-rate
\* samples included) and the geometry and policy as they were.
C9_ResetFrame ==
    [][pc' = "reset" =>
        /\ DOMAIN simulator'.cache_array = Sets
        /\ DOMAIN simulator'.fifo_idx = Sets
        /\ \A s \in Sets :
              /\ DOMAIN simulator'.cache_array[s] = Ways
              /\ simulator'.fifo_idx[s] = 0
              /\ \A w \in Ways :
                    /\ simulator'.cache_array[s][w].valid = FALSE
                    /\ simulator'.cache_array[s][w].tag = 0
                    /\ simulator'.cache_array[s][w].last_used = 0
        /\ simulator'.access_counter = simulator.access_counter
        /\ simulator'.stats = simulator.stats
        /\ simulator'.cache_size = simulator.cache_size
        /\ simulator'.block_size = simulator.block_size
        /\ simulator'.associativity = simulator.associativity
        /\ simulator'.num_blocks = simulator.num_blocks
        /\ simulator'.num_sets = simulator.num_sets
        /\ simulator'.replacement_policy = simulator.replacement_policy
    ]_vars

C9_Witness ==
    /\ pc = "reset"
    /\ simulator.access_counter >= 3
    /\ simulator.stats.evictions >= 1
    /\ simulator.stats.hits >= 1
    /\ Len(simulator.stats.hit_rate_history) = simulator.access_counter

\* C10: an access adds 1 to total_accesses, 1 to hits if the tag was resident and 1
\* to misses otherwise, and 1 to evictions exactly when it is a miss whose victim
\* line was valid; hits + misses = total_accesses and evictions <= misses always;
\* no operation lowers a counter.
C10_Statistics ==
    /\ [](/\ simulator.stats.hits + simulator.stats.misses
                = simulator.stats.total_accesses
          /\ simulator.stats.evictions <= simulator.stats.misses)
    /\ [][/\ simulator'.stats.total_accesses >= simulator.stats.total_accesses
          /\ simulator'.stats.hits >= simulator.stats.hits
          /\ simulator'.stats.misses >= simulator.stats.misses
          /\ simulator'.stats.evictions >= simulator.stats.evictions
          /\ pc' = "accessed" =>
                LET o == log'[Len(log')]
                    was_hit == Resident(simulator, o.set_index, o.tag)
                    victim_valid == simulator.cache_array[o.set_index][o.way].valid
                IN  /\ simulator'.stats.total_accesses
                          = simulator.stats.total_accesses + 1
                    /\ o.hit = was_hit
                    /\ simulator'.stats.hits
                          = simulator.stats.hits + (IF was_hit THEN 1 ELSE 0)
                    /\ simulator'.stats.misses
                          = simulator.stats.misses + (IF was_hit THEN 0 ELSE 1)
                    /\ simulator'.stats.evictions
                          = simulator.stats.evictions
                            + (IF ~was_hit /\ victim_valid THEN 1 ELSE 0)
         ]_vars

C10_Witness ==
    /\ pc = "accessed"
    /\ simulator.stats.hits >= 1
    /\ simulator.stats.evictions >= 1
    /\ simulator.stats.evictions < simulator.stats.misses

\* 100.0
Hundred == FloatDiv(100, 1)

\* floats a and b (>= 0) are equal or adjacent
WithinOneUlp(a, b) ==
    \/ a = b
    \/ b # FloatZero /\ a = FloatSucc(b)
    \/ a # FloatZero /\ b = FloatSucc(a)

SamplesInRange ==
    /\ Len(simulator.stats.hit_rate_history) = simulator.stats.total_accesses
    /\ \A i \in 1..Len(simulator.stats.hit_rate_history) :
          FloatLe(simulator.stats.hit_rate_history[i], Hundred)

\* C11 (as stated): one sample is appended per access, the i-th sample equals
\* 100 * hits / i (hits counted after the i-th access), and every sample is in [0, 100].
C11_AsStated ==
    /\ []SamplesInRange
    /\ [][pc' = "accessed" =>
            simulator'.stats.hit_rate_history =
                Append(simulator.stats.hit_rate_history,
                       FloatDiv(100 * simulator'.stats.hits,
                                simulator'.stats.total_accesses))]_vars

\* C11 (amended): one sample is appended per access and none otherwise, the i-th
\* sample is the float (hits / i) * 100 with the quotient rounded before the
\* product, which is equal or adjacent to the float 100 * hits / i, is 0.0 when
\* hits = 0 and 100.0 when hits = i, and every sample is in [0, 100].
C11_HitRateSamples ==
    /\ []SamplesInRange
    /\ [][/\ pc' = "accessed" =>
                LET h == simulator'.stats.hits
                    n == simulator'.stats.total_accesses
                    x == simulator'.stats.hit_rate_history[n]
                IN  /\ simulator'.stats.hit_rate_history =
                          Append(simulator.stats.hit_rate_history, x)
                    /\ x = FloatMul100(FloatDiv(h, n))
                    /\ WithinOneUlp(x, FloatDiv(100 * h, n))
                    /\ (h = 0 => x = FloatZero)
                    /\ (h = n => x = Hundred)
          /\ pc' # "accessed" =>
                simulator'.stats.hit_rate_history = simulator.stats.hit_rate_history
         ]_vars

C11_Witness ==
    /\ pc = "accessed"
    /\ simulator.stats.hits = 1
    /\ simulator.stats.total_accesses = 3
    /\ simulator.stats.hit_rate_history[3] # FloatDiv(100, 3)
    /\ simulator.stats.hit_rate_history[3] = FloatMul100(FloatDiv(1, 3))

\* C12: after any number of accesses and resets every set has exactly the
\* `associativity` ways it was built with, so at most that many valid lines, and
\* every access selected a set index in 0..num_sets-1 (no access indexed past the
\* end of cache_array).
C12_Capacity ==
    /\ exc # "IndexError"
    /\ \A i \in 1..Len(log) : log[i].set_index \in Sets
    /\ Live =>
          /\ DOMAIN simulator.cache_array = Sets
          /\ \A s \in Sets :
                /\ DOMAIN simulator.cache_array[s] = Ways
                /\ Cardinality({w \in DOMAIN simulator.cache_array[s] :
                                   simulator.cache_array[s][w].valid})
                      <= simulator.associativity

C12_Witness ==
    /\ Live
    /\ simulator.num_sets > 1
    /\ simulator.stats.evictions >= 1
    /\ \E s \in Sets : \A w \in Ways : simulator.cache_array[s][w].valid
    /\ \E i, j \in 1..Len(log) : log[i].set_index # log[j].set_index

\* the largest element of a non-empty finite set of integers
MaxOf(S) == CHOOSE x \in S : \A y \in S : y <= x

\* the position in the log of the miss that filled way w of set s before position k
\* (0 when the way has not been filled since the last (re)initialisation)
FillIdx(s, w, k) ==
    LET fills == {i \in 1..(k - 1) :
                    ~log[i].hit /\ log[i].set_index = s /\ log[i].way = w}
    IN  IF fills = {} THEN 0 ELSE MaxOf(fills)

\* C13: under LRU a miss takes the way of the selected set with the smallest
\* last_used, the lowest-indexed one among equals, and overwrites exactly that way
\* with valid = true, the computed tag and last_used = the access counter of this
\* access; the other ways of the set keep their content.
C13_LRUVictim ==
    [][(pc' = "accessed" /\ simulator.replacement_policy = "LRU"
        /\ ~log'[Len(log')].hit) =>
            LET o == log'[Len(log')]
                before == simulator.cache_array[o.set_index]
                after == simulator'.cache_array[o.set_index]
            IN  /\ o.way \in Ways
                /\ \A v \in Ways : before[o.way].last_used <= before[v].last_used
                /\ \A v \in Ways :
                      v < o.way => before[v].last_used > before[o.way].last_used
                /\ simulator'.access_counter = simulator.access_counter + 1
                /\ o.tag = TagValue(o.address, simulator.num_sets)
                /\ after[o.way] = [valid |-> TRUE, tag |-> o.tag,
                                   last_used |-> simulator'.access_counter]
                /\ \A v \in Ways : v # o.way => after[v] = before[v]
      ]_vars

C13_Witness ==
    /\ pc = "accessed" /\ simulator.replacement_policy = "LRU"
    /\ simulator.associativity = 3
    /\ Len(log) >= 1
    /\ ~log[Len(log)].hit /\ log[Len(log)].evicted /\ log[Len(log)].way = 1

\* C14: under FIFO, when a miss evicts a valid line, every way of the set has been
\* filled since the last (re)initialisation and the evicted way is the one whose
\* fill is the oldest, whatever hits the lines received since.
C14_FifoOldest ==
    (Live /\ simulator.replacement_policy = "FIFO") =>
        \A k \in 1..Len(log) :
            log[k].evicted =>
                \A w \in Ways :
                    /\ FillIdx(log[k].set_index, w, k) >= 1
                    /\ FillIdx(log[k].set_index, log[k].way, k)
                          <= FillIdx(log[k].set_index, w, k)

C14_Witness ==
    /\ Live /\ simulator.replacement_policy = "FIFO"
    /\ \E k \in 1..Len(log) :
          /\ log[k].evicted
          /\ \E j \in 1..(k - 1) :
                /\ log[j].hit
                /\ log[j].set_index = log[k].set_index
                /\ log[j].way = log[k].way
                /\ \A i \in (j + 1)..(k - 1) : log[i].set_index # log[k].set_index

\* the tags other than log[j].tag accessed in set log[j].set_index strictly between
\* positions i and j of the log
TagsBetween(i, j) ==
    {log[m].tag : m \in {x \in (i + 1)..(j - 1) :
                            /\ log[x].set_index = log[j].set_index
                            /\ log[x].tag # log[j].tag}}

\* the earlier positions of the log that accessed the (set, tag) pair of position j
Earlier(j) ==
    {i \in 1..(j - 1) :
        log[i].set_index = log[j].set_index /\ log[i].tag = log[j].tag}

\* C15: under LRU with associativity k, an access is a hit exactly when its
\* (set, tag) pair was accessed earlier since the last (re)initialisation and fewer
\* than k distinct other tags of that set were accessed since the latest such access.
C15_LRUStack ==
    (Live /\ simulator.replacement_policy = "LRU") =>
        \A j \in 1..Len(log) :
            IF Earlier(j) = {} THEN ~log[j].hit
            ELSE log[j].hit <=>
                   Cardinality(TagsBetween(MaxOf(Earlier(j)), j))
                       < simulator.associativity

C15_Witness ==
    /\ Live /\ simulator.replacement_policy = "LRU"
    /\ \E j, k \in 1..Len(log) :
          /\ Earlier(j) # {} /\ log[j].hit
          /\ Cardinality(TagsBetween(MaxOf(Earlier(j)), j)) >= 1
          /\ Earlier(k) # {} /\ ~log[k].hit
          /\ Cardinality(TagsBetween(MaxOf(Earlier(k)), k)) >= simulator.associativity

\* C16: an access whose address maps to set s leaves the lines and the FIFO cursor
\* of every other set unchanged; a hit also leaves valid and tag of all lines of s,
\* last_used of the ways of s that do not hold the tag, the FIFO cursor of s and the
\* eviction counter unchanged.
C16_AccessFrame ==
    [][pc' = "accessed" =>
        LET o == log'[Len(log')]
            s == o.set_index
        IN  /\ s = SetIndex(o.address, simulator.num_sets)
            /\ DOMAIN simulator'.cache_array = DOMAIN simulator.cache_array
            /\ \A t \in Sets \ {s} :
                  /\ simulator'.cache_array[t] = simulator.cache_array[t]
                  /\ simulator'.fifo_idx[t] = simulator.fifo_idx[t]
            /\ o.hit =>
                  /\ \A w \in Ways :
                        /\ simulator'.cache_array[s][w].valid
                              = simulator.cache_array[s][w].valid
                        /\ simulator'.cache_array[s][w].tag
                              = simulator.cache_array[s][w].tag
                        /\ ~(simulator.cache_array[s][w].valid
                             /\ simulator.cache_array[s][w].tag = o.tag)
                           => simulator'.cache_array[s][w].last_used
                                 = simulator.cache_array[s][w].last_used
                  /\ simulator'.fifo_idx[s] = simulator.fifo_idx[s]
                  /\ simulator'.stats.evictions = simulator.stats.evictions
    ]_vars

C16_Witness ==
    /\ pc = "accessed"
    /\ Len(log) >= 1 /\ log[Len(log)].hit
    /\ \A w \in Ways : simulator.cache_array[log[Len(log)].set_index][w].valid
    /\ \E t \in Sets \ {log[Len(log)].set_index} : simulator.cache_array[t][0].valid

ValidPrefix ==
    Live =>
        \A s \in Sets : \A w \in Ways :
            simulator.cache_array[s][w].valid =>
                \A v \in 0..(w - 1) : simulator.cache_array[s][v].valid

\* C17: under either policy the valid ways of every set are a prefix 0..m-1 of the
\* way indices; a miss on a set with an invalid way fills the lowest invalid way
\* and evicts nothing; a miss evicts only when every way of the set is valid.
C17_FillBeforeEvict ==
    /\ []ValidPrefix
    /\ [][(pc' = "accessed" /\ ~log'[Len(log')].hit) =>
            LET o == log'[Len(log')]
                before == simulator.cache_array[o.set_index]
                invalid == {w \in Ways : ~before[w].valid}
            IN  /\ o.evicted <=> invalid = {}
                /\ simulator'.stats.evictions
                      = simulator.stats.evictions + (IF invalid = {} THEN 1 ELSE 0)
                /\ invalid # {} =>
                      /\ o.way \in invalid
                      /\ \A w \in invalid : o.way <= w
         ]_vars

C17_Witness ==
    /\ pc = "accessed"
    /\ \E i \in 1..Len(log) : log[i].evicted
    /\ \E s \in Sets :
          /\ simulator.cache_array[s][0].valid
          /\ ~simulator.cache_array[s][simulator.associativity - 1].valid

\* C18 (as stated): an access is a hit only if an earlier access since the last
\* (re)initialisation had the same value of address div block_size.
C18_SameBlock ==
    Live =>
        \A j \in 1..Len(log) :
            log[j].hit =>
                \E i \in 1..(j - 1) :
                    log[i].address \div simulator.block_size
                        = log[j].address \div simulator.block_size

\* C19: no set holds two valid lines with the same tag (so the hit scan can match
\* one way at most), the tag just accessed is resident, and an access that repeats
\* the address of the access before it is a hit.
C19_NoDuplicateTags ==
    Live =>
        /\ \A s \in Sets : \A v, w \in Ways :
              (/\ v # w
               /\ simulator.cache_array[s][v].valid
               /\ simulator.cache_array[s][w].valid)
              => simulator.cache_array[s][v].tag # simulator.cache_array[s][w].tag
        /\ (pc = "accessed" /\ Len(log) >= 1) =>
              Cardinality({w \in Ways :
                  /\ simulator.cache_array[log[Len(log)].set_index][w].valid
                  /\ simulator.cache_array[log[Len(log)].set_index][w].tag
                        = log[Len(log)].tag}) = 1
        /\ \A j \in 2..Len(log) :
              log[j].address = log[j - 1].address => log[j].hit

C19_Witness ==
    /\ Live
    /\ \E j \in 2..Len(log) :
          /\ log[j].address = log[j - 1].address
          /\ log[j - 1].evicted
          /\ log[j].hit

\* the number of valid lines over all sets
ValidLines ==
    Cardinality({p \in Sets \X Ways : simulator.cache_array[p[1]][p[2]].valid})

\* C20: misses - evictions equals the number of valid lines as long as init_cache
\* has not been called after an access (the log then holds every access); once it
\* has, misses - evictions is larger than the number of valid lines.
C20_MissBalance ==
    Live =>
        /\ simulator.stats.misses - simulator.stats.evictions >= ValidLines
        /\ Len(log) = simulator.stats.total_accesses =>
              simulator.stats.misses - simulator.stats.evictions = ValidLines
        /\ Len(log) < simulator.stats.total_accesses =>
              simulator.stats.misses - simulator.stats.evictions > ValidLines

C20_Witness ==
    /\ pc = "accessed"
    /\ Len(log) = simulator.stats.total_accesses
    /\ simulator.stats.evictions >= 1
    /\ simulator.stats.hits >= 1
    /\ ValidLines >= 3

====
